---- MODULE Spec2Model ----
(***************************************************************************)
(* Arabic Tutor API (src/app.py): the free-tier Access Gate of /api/chat,  *)
(* the /api/check-subscription report and /api/create-checkout.            *)
(*                                                                         *)
(* Spec     : every request handler runs to completion before the next one *)
(*            starts (one action per handler).                             *)
(* SpecConc : chat requests are served by NumThreads threads whose         *)
(*            statements interleave (Flask's threaded server); each        *)
(*            statement that touches user_usage is one step.               *)
(***************************************************************************)
EXTENDS Integers, Sequences, FiniteSets, TLC

(* ------------------------------ bounds -------------------------------- *)
\* calendar days the clock runs through
MaxDay == 2
\* free-tier chat requests user "a" sends in one run (all days)
MaxMetered == 11
\* free-tier chat requests any other named user sends in one run (all days)
MaxOther == 1
\* server threads of SpecConc
NumThreads == 2
\* chat requests SpecConc receives in one run
MaxConc == 3

(* ------------------------- program constants -------------------------- *)
\* the daily free-tier limit: `current_usage >= 10`, `10 - ...`
Limit == 10

\* the default user identifier of chat
Anonymous == "anonymous"

(* ------------------------------- inputs ------------------------------- *)
\* the e-mail strings callers send
Emails == {Anonymous, "", "a"}

Days == 1..MaxDay

\* a field of the JSON body: absent, or present with a value
Absent == [present |-> FALSE, value |-> ""]

Present(v) == [present |-> TRUE, value |-> v]

EmailFields == {Absent} \cup {Present(e) : e \in Emails}

\* what the two Stripe calls of a subscription lookup come back with: one of them
\* raises, no customer is listed, the customer has no active subscription, or has one
LookupOutcomes == {"error", "no_customer", "inactive", "active"}

\* what the Anthropic call comes back with: a message, or an exception
ProviderOutcomes == {"ok", "error"}

\* the bodies of a chat request: messages empty or not, user_email
ChatBodies == [messages : BOOLEAN, user_email : EmailFields]

\* what stripe.checkout.Session.create comes back with
SessionOutcomes == {"ok", "error"}

\* the plan selectors a caller sends
Plans == {"premium", "premium_voice", "gold"}

PlanFields == {Absent} \cup {Present(p) : p \in Plans}

\* the value of a price environment variable: unset (None), empty, or set
PriceValues == {"<unset>", "", "price_1"}

\* the environment a checkout request finds: the two price variables
Environments == [STRIPE_PRICE_PREMIUM : PriceValues, STRIPE_PRICE_PREMIUM_VOICE : PriceValues]

(* ------------------------------ helpers ------------------------------- *)
\* dict.get(key, default) on a JSON body field
DataGet(field, default) == IF field.present THEN field.value ELSE default

\* dict.get(key, default) on the usage mapping
Get(d, k, default) == IF k \in DOMAIN d THEN d[k] ELSE default

\* d[k] = v
Put(d, k, v) == [x \in DOMAIN d \cup {k} |-> IF x = k THEN v ELSE d[x]]

Max(a, b) == IF a >= b THEN a ELSE b

\* datetime.now().strftime('%Y-%m-%d'): a string of fixed width
DayChars == <<"1", "2", "3", "4", "5", "6", "7", "8", "9">>

strftime(day) == "2026-01-0" \o DayChars[day]

\* a faulty usage_key: the date is left out of the key
usage_key_no_date(user_email, day) == user_email \o ":"

\* f"{user_email}:{today}"
usage_key(user_email, day) == user_email \o ":" \o strftime(day)

(* ------------------------------- state -------------------------------- *)
VARIABLES
    user_usage,   \* the in-memory usage mapping: usage key -> count
    today,        \* the calendar day datetime.now() falls on
    resp,         \* the last request served and the response it was given
    metered,      \* history: free-tier chat requests received, per (user, day)
    pc,           \* SpecConc: where each thread stands in chat()
    loc,          \* SpecConc: each thread's local variables
    admits,       \* history: requests that passed the limit test, per (user, day)
    started       \* SpecConc history: chat requests received

vars == <<user_usage, today, resp, metered, pc, loc, admits, started>>

Threads == 1..NumThreads

\* the value of a response body's remaining_messages (or of the local `remaining`)
RemAbsent == [kind |-> "absent", val |-> 0]

RemUnlimited == [kind |-> "unlimited", val |-> 0]

RemInt(n) == [kind |-> "int", val |-> n]

\* no environment read
NoEnvironment ==
    [STRIPE_PRICE_PREMIUM |-> "<unset>", STRIPE_PRICE_PREMIUM_VOICE |-> "<unset>"]

\* a response before the handler fills it in
BaseResp ==
    [op |-> "none", user |-> "", day |-> 0, lookup |-> "not_made",
     provider |-> "not_called", status |-> 0, success |-> "absent",
     error |-> "", admitted |-> FALSE, has_subscription |-> FALSE,
     gate |-> RemAbsent, remaining |-> RemAbsent, upgrade_required |-> FALSE,
     stripe |-> FALSE, before |-> 0, free |-> FALSE, n |-> 0,
     plan |-> "", env |-> NoEnvironment]

(* ------------------------------ /api/chat ----------------------------- *)
\* a faulty check_user_has_subscription: a failed lookup counts as subscribed
check_user_has_subscription_fail_open(email, lookup) ==
    IF email = Anonymous THEN FALSE
    ELSE lookup \in {"active", "error"}

\* check_user_has_subscription(email): every exception and every empty list is False
check_user_has_subscription(email, lookup) ==
    IF email = Anonymous THEN FALSE
    ELSE CASE lookup = "error" -> FALSE
           [] lookup = "no_customer" -> FALSE
           [] lookup = "inactive" -> FALSE
           [] lookup = "active" -> TRUE

\* a faulty ApplyLimits: the test for a subscription is left out
ApplyLimitsToSubscribers(has_subscription, user_email) == user_email # Anonymous

\* a faulty ApplyLimits: the test for "anonymous" is left out
ApplyLimitsToAnonymous(has_subscription, user_email) == ~has_subscription

\* `if not has_subscription and user_email != 'anonymous'`
ApplyLimits(has_subscription, user_email) ==
    ~has_subscription /\ user_email # Anonymous

\* a faulty LimitReached: off by one
LimitReachedLate(current_usage) == current_usage > Limit

\* `if current_usage >= 10`
LimitReached(current_usage) == current_usage >= Limit

\* `user_usage[usage_key] = current_usage + 1`
Increment(usage, key, current_usage) == Put(usage, key, current_usage + 1)

\* `remaining = 10 - user_usage[usage_key]`
RemainingAfter(usage, key) == RemInt(Limit - usage[key])

\* the 429 response of the limit test
LimitResponse(r) ==
    [r EXCEPT !.status = 429, !.success = "false", !.error = "limit",
              !.upgrade_required = TRUE, !.remaining = RemInt(0)]

\* the Anthropic call and the response built from it, or the 500 of either handler
Complete(r, remaining, provider) ==
    LET called == [r EXCEPT !.admitted = TRUE, !.gate = remaining,
                            !.provider = provider]
    IN  CASE provider = "ok" ->
                [called EXCEPT !.status = 200, !.success = "true",
                               !.remaining = remaining]
          [] provider = "error" ->
                [called EXCEPT !.status = 500, !.success = "false",
                               !.error = "provider"]

\* the request as chat() has it after the subscription check
ChatEntry(day, body, lookup) ==
    LET user_email == DataGet(body.user_email, Anonymous)
    IN  [BaseResp EXCEPT
            !.op = "chat", !.user = user_email, !.day = day,
            !.stripe = (user_email # Anonymous),
            !.lookup = IF user_email = Anonymous THEN "not_made" ELSE lookup,
            !.has_subscription = check_user_has_subscription(user_email, lookup)]

\* `if not messages`: the 400 response, given before any lookup
NoMessages(day, body) ==
    [BaseResp EXCEPT !.op = "chat", !.user = DataGet(body.user_email, Anonymous),
                     !.day = day, !.status = 400, !.error = "no_messages"]

\* a faulty chat: the counter is incremented only after the provider answered
chat_charge_on_success(usage, day, body, lookup, provider) ==
    LET r == ChatEntry(day, body, lookup)
        key == usage_key(r.user, day)
        current_usage == Get(usage, key, 0)
        charged == Increment(usage, key, current_usage)
    IN  IF ~body.messages
        THEN [usage |-> usage, resp |-> NoMessages(day, body)]
        ELSE IF ApplyLimits(r.has_subscription, r.user)
        THEN IF LimitReached(current_usage)
             THEN [usage |-> usage,
                   resp |-> LimitResponse([r EXCEPT !.before = current_usage])]
             ELSE [usage |-> IF provider = "ok" THEN charged ELSE usage,
                   resp |-> Complete([r EXCEPT !.before = current_usage],
                                     RemainingAfter(charged, key), provider)]
        ELSE [usage |-> usage, resp |-> Complete(r, RemUnlimited, provider)]

\* chat(): the whole handler; the new usage mapping and the response
chat(usage, day, body, lookup, provider) ==
    LET r == ChatEntry(day, body, lookup)
        key == usage_key(r.user, day)
        current_usage == Get(usage, key, 0)
        charged == Increment(usage, key, current_usage)
    IN  IF ~body.messages
        THEN [usage |-> usage, resp |-> NoMessages(day, body)]
        ELSE IF ApplyLimits(r.has_subscription, r.user)
        THEN IF LimitReached(current_usage)
             THEN [usage |-> usage,
                   resp |-> LimitResponse([r EXCEPT !.before = current_usage])]
             ELSE [usage |-> charged,
                   resp |-> Complete([r EXCEPT !.before = current_usage],
                                     RemainingAfter(charged, key), provider)]
        ELSE [usage |-> usage, resp |-> Complete(r, RemUnlimited, provider)]

(* ----------------------- /api/check-subscription ---------------------- *)
\* a faulty check_subscription: a failed lookup is reported as no subscription
check_subscription_degrading(usage, day, email, lookup) ==
    LET r == [BaseResp EXCEPT !.op = "check", !.day = day,
                              !.user = DataGet(email, "")]
        current_usage == Get(usage, usage_key(r.user, day), 0)
        asked == [r EXCEPT !.stripe = TRUE, !.lookup = lookup,
                           !.before = current_usage]
    IN  IF (~email.present) \/ email.value = ""
        THEN [r EXCEPT !.status = 200, !.remaining = RemInt(10)]
        ELSE CASE lookup \in {"error", "no_customer"} ->
                    [asked EXCEPT !.status = 200,
                                  !.remaining = RemInt(Max(0, 10 - current_usage))]
               [] lookup = "inactive" ->
                    [asked EXCEPT !.status = 200, !.remaining = RemInt(0)]
               [] lookup = "active" ->
                    [asked EXCEPT !.status = 200, !.has_subscription = TRUE,
                                  !.remaining = RemUnlimited]

\* check_subscription(): the response (the handler writes nothing)
check_subscription(usage, day, email, lookup) ==
    LET r == [BaseResp EXCEPT !.op = "check", !.day = day,
                              !.user = DataGet(email, "")]
        current_usage == Get(usage, usage_key(r.user, day), 0)
        asked == [r EXCEPT !.stripe = TRUE, !.lookup = lookup,
                           !.before = current_usage]
    IN  IF (~email.present) \/ email.value = ""
        THEN [r EXCEPT !.status = 200, !.remaining = RemInt(10)]
        ELSE CASE lookup = "error" ->
                    [asked EXCEPT !.status = 500, !.error = "stripe"]
               [] lookup = "no_customer" ->
                    [asked EXCEPT !.status = 200,
                                  !.remaining = RemInt(Max(0, 10 - current_usage))]
               [] lookup = "inactive" ->
                    [asked EXCEPT !.status = 200, !.remaining = RemInt(0)]
               [] lookup = "active" ->
                    [asked EXCEPT !.status = 200, !.has_subscription = TRUE,
                                  !.remaining = RemUnlimited]

(* ------------------------ /api/create-checkout ------------------------ *)
\* `not price_id`: None and the empty string are false
Falsy(price_id) == price_id \in {"<unset>", ""}

\* the price_ids dict built from the environment
price_ids(env) ==
    [p \in {"premium", "premium_voice"} |->
        IF p = "premium" THEN env.STRIPE_PRICE_PREMIUM
        ELSE env.STRIPE_PRICE_PREMIUM_VOICE]

\* a faulty create_checkout: the session is created before the price is tested
create_checkout_unvalidated(plan_field, env, session) ==
    LET plan == DataGet(plan_field, "premium")
        price_id == Get(price_ids(env), plan, "<unset>")
        r == [BaseResp EXCEPT !.op = "checkout", !.plan = plan, !.env = env,
                              !.stripe = TRUE]
    IN  IF session = "error"
        THEN [r EXCEPT !.status = 500, !.error = "stripe"]
        ELSE IF Falsy(price_id)
        THEN [r EXCEPT !.status = 400, !.error = "invalid_plan"]
        ELSE [r EXCEPT !.status = 200]

\* create_checkout(): the response
create_checkout(plan_field, env, session) ==
    LET plan == DataGet(plan_field, "premium")
        price_id == Get(price_ids(env), plan, "<unset>")
        r == [BaseResp EXCEPT !.op = "checkout", !.plan = plan, !.env = env]
    IN  IF Falsy(price_id)
        THEN [r EXCEPT !.status = 400, !.error = "invalid_plan"]
        ELSE IF session = "error"
        THEN [r EXCEPT !.status = 500, !.error = "stripe", !.stripe = TRUE]
        ELSE [r EXCEPT !.status = 200, !.stripe = TRUE]

(* ------------------------- history bookkeeping ------------------------ *)
RECURSIVE SentUpTo(_, _, _)
SentUpTo(f, user, day) ==
    IF day = 0 THEN 0 ELSE f[<<user, day>>] + SentUpTo(f, user, day - 1)

\* the free-tier chat requests a user has sent, all days together
Sent(f, user) == SentUpTo(f, user, MaxDay)

\* the free-tier chat requests the run lets a user send
Budget(user) == IF user = "a" THEN MaxMetered ELSE MaxOther

\* a chat request the free tier has to meter: messages given, a named user,
\* and no active subscription reported for them
IsFreeRequest(body, lookup) ==
    /\ body.messages
    /\ DataGet(body.user_email, Anonymous) # Anonymous
    /\ lookup # "active"

\* a thread's local variables while it serves no request
IdleLoc ==
    [user_email |-> "", has_subscription |-> FALSE, today |-> 0,
     current_usage |-> 0, remaining |-> RemAbsent]

(* --------------------- the inputs a request reads ---------------------- *)
\* An outcome of a call the handler never makes is not an input of the request:
\* it is fixed to "not_made" / "not_called".
ChatLookups(body) ==
    IF body.messages /\ DataGet(body.user_email, Anonymous) # Anonymous
    THEN LookupOutcomes ELSE {"not_made"}

ChatProviders(usage, day, body, lookup) ==
    IF chat(usage, day, body, lookup, "ok").resp.admitted
    THEN ProviderOutcomes ELSE {"not_called"}

CheckLookups(email) ==
    IF email.present /\ email.value # "" THEN LookupOutcomes ELSE {"not_made"}

\* the environment as far as the request reads it: the variable of another plan
\* is left unset
CheckoutEnvironments(plan_field) ==
    LET plan == DataGet(plan_field, "premium")
    IN  {env \in Environments :
            /\ plan # "premium" => env.STRIPE_PRICE_PREMIUM = "<unset>"
            /\ plan # "premium_voice" => env.STRIPE_PRICE_PREMIUM_VOICE = "<unset>"}

CheckoutSessions(plan_field, env) ==
    IF create_checkout(plan_field, env, "ok").stripe
    THEN SessionOutcomes ELSE {"not_called"}

(* ------------------------------- actions ------------------------------ *)
Init ==
    /\ user_usage = <<>>
    /\ today = 1
    /\ resp = BaseResp
    /\ metered = [k \in Emails \X Days |-> 0]
    /\ pc = [t \in Threads |-> "idle"]
    /\ loc = [t \in Threads |-> IdleLoc]
    /\ admits = [k \in Emails \X Days |-> 0]
    /\ started = 0

\* POST /api/chat, served from start to end
Chat(body, lookup, provider) ==
    LET out == chat(user_usage, today, body, lookup, provider)
        free == IsFreeRequest(body, lookup)
        k == <<out.resp.user, today>>
    IN  /\ resp.op = "none"
        /\ free => Sent(metered, out.resp.user) < Budget(out.resp.user)
        /\ user_usage' = out.usage
        /\ metered' = IF free THEN [metered EXCEPT ![k] = @ + 1] ELSE metered
        /\ resp' = [out.resp EXCEPT !.free = free,
                                    !.n = IF free THEN metered[k] + 1 ELSE 0]
        /\ admits' = IF out.resp.admitted /\ out.resp.gate.kind = "int"
                     THEN [admits EXCEPT ![k] = @ + 1] ELSE admits
        /\ UNCHANGED <<today, pc, loc, started>>

\* POST /api/check-subscription
CheckSubscription(email, lookup) ==
    /\ resp.op = "none"
    /\ resp' = check_subscription(user_usage, today, email, lookup)
    /\ UNCHANGED <<user_usage, today, metered, pc, loc, admits, started>>

\* POST /api/create-checkout
CreateCheckout(plan_field, env, session) ==
    /\ resp.op = "none"
    /\ resp' = create_checkout(plan_field, env, session)
    /\ UNCHANGED <<user_usage, today, metered, pc, loc, admits, started>>

\* the response has gone out; the server takes the next request
Deliver ==
    /\ resp.op # "none"
    /\ resp' = BaseResp
    /\ UNCHANGED <<user_usage, today, metered, pc, loc, admits, started>>

\* midnight passes
AdvanceDay ==
    /\ today < MaxDay
    /\ today' = today + 1
    /\ UNCHANGED <<user_usage, resp, metered, pc, loc, admits, started>>

Next ==
    \/ \E body \in ChatBodies : \E lookup \in ChatLookups(body) :
            \E provider \in ChatProviders(user_usage, today, body, lookup) :
                Chat(body, lookup, provider)
    \/ \E email \in EmailFields : \E lookup \in CheckLookups(email) :
            CheckSubscription(email, lookup)
    \/ \E plan_field \in PlanFields : \E env \in CheckoutEnvironments(plan_field) :
            \E session \in CheckoutSessions(plan_field, env) :
                CreateCheckout(plan_field, env, session)
    \/ Deliver
    \/ AdvanceDay

Spec == Init /\ [][Next]_vars

(* --------------- /api/chat, statement by statement ------------------- *)
\* The state after `served` free-tier requests of user "a" were served one at a
\* time on day 1 and their responses delivered: a state Spec reaches.
AfterServing(served) ==
    LET key == usage_key("a", 1)
        k == <<"a", 1>>
    IN  /\ user_usage = IF served = 0 THEN <<>> ELSE Put(<<>>, key, served)
        /\ today = 1
        /\ resp = BaseResp
        /\ metered = [x \in Emails \X Days |-> IF x = k THEN served ELSE 0]
        /\ admits = [x \in Emails \X Days |-> IF x = k THEN served ELSE 0]
        /\ pc = [t \in Threads |-> "idle"]
        /\ loc = [t \in Threads |-> IdleLoc]
        /\ started = 0

InitConc == \E served \in 0..Limit : AfterServing(served)

\* lines 130-144, 161: the request is read, the subscription looked up
ChatStart(t, body, lookup) ==
    LET user_email == DataGet(body.user_email, Anonymous)
        has_subscription == check_user_has_subscription(user_email, lookup)
    IN  /\ pc[t] = "idle"
        /\ started < MaxConc
        /\ started' = started + 1
        /\ IF ~body.messages
           THEN UNCHANGED <<pc, loc, metered>>
           ELSE /\ metered' = IF IsFreeRequest(body, lookup)
                              THEN [metered EXCEPT ![<<user_email, today>>] = @ + 1]
                              ELSE metered
                /\ loc' = [loc EXCEPT ![t] =
                            [IdleLoc EXCEPT
                                !.user_email = user_email,
                                !.has_subscription = has_subscription,
                                !.remaining =
                                    IF ApplyLimits(has_subscription, user_email)
                                    THEN RemAbsent ELSE RemUnlimited]]
                /\ pc' = [pc EXCEPT ![t] =
                            IF ApplyLimits(has_subscription, user_email)
                            THEN "read" ELSE "call"]
        /\ UNCHANGED <<user_usage, today, resp, admits>>

\* lines 145-155: the date and the counter are read, the limit is tested
ChatRead(t) ==
    LET current_usage == Get(user_usage, usage_key(loc[t].user_email, today), 0)
        k == <<loc[t].user_email, today>>
    IN  /\ pc[t] = "read"
        /\ IF LimitReached(current_usage)
           THEN /\ pc' = [pc EXCEPT ![t] = "idle"]
                /\ loc' = [loc EXCEPT ![t] = IdleLoc]
                /\ UNCHANGED admits
           ELSE /\ loc' = [loc EXCEPT ![t] = [@ EXCEPT !.today = today,
                                                       !.current_usage = current_usage]]
                /\ pc' = [pc EXCEPT ![t] = "write"]
                /\ admits' = [admits EXCEPT ![k] = @ + 1]
        /\ UNCHANGED <<user_usage, today, resp, metered, started>>

\* line 158: user_usage[usage_key] = current_usage + 1
ChatWrite(t) ==
    /\ pc[t] = "write"
    /\ user_usage' = Increment(user_usage,
                               usage_key(loc[t].user_email, loc[t].today),
                               loc[t].current_usage)
    /\ pc' = [pc EXCEPT ![t] = "remain"]
    /\ UNCHANGED <<today, resp, metered, loc, admits, started>>

\* line 159: remaining = 10 - user_usage[usage_key]
ChatRemaining(t) ==
    /\ pc[t] = "remain"
    /\ loc' = [loc EXCEPT ![t] =
                [@ EXCEPT !.remaining =
                    RemainingAfter(user_usage,
                                   usage_key(loc[t].user_email, loc[t].today))]]
    /\ pc' = [pc EXCEPT ![t] = "call"]
    /\ UNCHANGED <<user_usage, today, resp, metered, admits, started>>

\* lines 163-199: the provider is called and the response is sent
ChatCall(t) ==
    /\ pc[t] = "call"
    /\ pc' = [pc EXCEPT ![t] = "idle"]
    /\ loc' = [loc EXCEPT ![t] = IdleLoc]
    /\ UNCHANGED <<user_usage, today, resp, metered, admits, started>>

NextConc ==
    \/ \E t \in Threads : \E body \in ChatBodies : \E lookup \in ChatLookups(body) :
            ChatStart(t, body, lookup)
    \/ \E t \in Threads : ChatRead(t)
    \/ \E t \in Threads : ChatWrite(t)
    \/ \E t \in Threads : ChatRemaining(t)
    \/ \E t \in Threads : ChatCall(t)

SpecConc == InitConc /\ [][NextConc]_vars

(* ============================ the claims ============================== *)
Min(a, b) == IF a <= b THEN a ELSE b

\* today's stored count of a user, as the handlers read it
Stored(user, day) == Get(user_usage, usage_key(user, day), 0)

\* the step is a chat request being served (Spec)
ChatServed == resp.op = "none" /\ resp'.op = "chat"

(* C1: for a named user without an active subscription, starting from the  *)
(* empty usage mapping, the Nth chat request of a day with messages is     *)
(* admitted with remaining 10 - N for N <= 10 (and answered 200 with       *)
(* remaining_messages = 10 - N when the provider answers); the 11th and    *)
(* every later one is rejected: 429, upgrade_required, remaining 0.        *)
C1_NthRequest ==
    (resp.op = "chat" /\ resp.free) =>
        IF resp.n <= Limit
        THEN /\ resp.admitted
             /\ resp.gate = RemInt(Limit - resp.n)
             /\ resp.status # 429
             /\ resp.provider = "ok" =>
                    (resp.status = 200 /\ resp.remaining = RemInt(Limit - resp.n))
        ELSE /\ ~resp.admitted
             /\ resp.status = 429
             /\ resp.upgrade_required
             /\ resp.remaining = RemInt(0)

\* the 11th request of a day has been rejected
C1_Witness ==
    /\ resp.op = "chat" /\ resp.free
    /\ resp.n = Limit + 1
    /\ resp.status = 429

(* C2: a chat request of "anonymous" is never answered 429 and leaves the  *)
(* usage mapping as it was.                                                *)
C2_AnonymousUnmetered ==
    [][(ChatServed /\ resp'.user = Anonymous /\ resp'.status # 400) =>
            /\ resp'.status # 429
            /\ resp'.admitted
            /\ user_usage' = user_usage]_vars

\* anonymous is served while a named user stands at the limit
C2_Witness ==
    /\ resp.op = "chat" /\ resp.user = Anonymous /\ resp.status = 200
    /\ \E k \in DOMAIN user_usage : user_usage[k] >= Limit

(* C3: when the lookup reports an active subscription, the chat request is *)
(* admitted with remaining "unlimited", whatever the stored count, and the *)
(* usage mapping is left as it was.                                        *)
C3_SubscriberUnmetered ==
    [][(ChatServed /\ resp'.lookup = "active") =>
            /\ resp'.admitted
            /\ resp'.gate = RemUnlimited
            /\ resp'.status # 429
            /\ resp'.provider = "ok" =>
                    (resp'.status = 200 /\ resp'.remaining = RemUnlimited)
            /\ user_usage' = user_usage]_vars

\* a subscriber whose stored count is at the limit is served
C3_Witness ==
    /\ resp.op = "chat" /\ resp.lookup = "active" /\ resp.status = 200
    /\ Stored(resp.user, resp.day) >= Limit

(* C4: the stored count of each (user, date) is the number of free-tier    *)
(* requests that user sent on that date, capped at 10: a new date starts   *)
(* at 0 whatever was stored for the day before (first request: remaining   *)
(* 9), and no other user's or date's requests enter it.                    *)
C4_PerUserPerDate ==
    /\ \A user \in Emails, day \in Days :
            Stored(user, day) = Min(metered[<<user, day>>], Limit)
    /\ \A user \in Emails, day \in Days :
            day > today => usage_key(user, day) \notin DOMAIN user_usage
    /\ (resp.op = "chat" /\ resp.free /\ resp.n = 1) =>
            (resp.admitted /\ resp.gate = RemInt(Limit - 1))

\* user "a" was at the limit on day 1 and is admitted with 9 left on day 2,
\* beside another user's count
C4_Witness ==
    /\ today = 2
    /\ Stored("a", 1) = Limit
    /\ Stored("", 1) = 1
    /\ resp.op = "chat" /\ resp.user = "a" /\ resp.day = 2 /\ resp.free
    /\ resp.gate = RemInt(Limit - 1)
    /\ Stored("a", 2) = 1

(* C5: a chat request changes the usage mapping only on the non-subscribed *)
(* under-limit path, by adding one to the user's count of the day; the     *)
(* increment is made before the provider is called, so it stands when the  *)
(* provider fails and the request is answered 500.                         *)
C5_ChargedBeforeProvider ==
    [][ChatServed =>
        LET key == usage_key(resp'.user, resp'.day)
            before == Get(user_usage, key, 0)
            under_limit == /\ resp'.free
                           /\ before < Limit
        IN  /\ user_usage' # user_usage => under_limit
            /\ under_limit =>
                    /\ resp'.admitted
                    /\ user_usage' = Put(user_usage, key, before + 1)
            /\ (under_limit /\ resp'.provider = "error") =>
                    /\ resp'.status = 500
                    /\ user_usage'[key] = before + 1]_vars

\* a free-tier request failed at the provider and its unit is spent
C5_Witness ==
    /\ resp.op = "chat" /\ resp.free
    /\ resp.provider = "error" /\ resp.status = 500
    /\ resp.n <= Limit
    /\ Stored(resp.user, resp.day) = resp.n

(* C6: when the subscription lookup of a chat request fails, the named     *)
(* user is metered as a free user: admitted and counted while the stored   *)
(* count is under 10, rejected with 429 from 10 on; the lookup failure     *)
(* itself produces no error response.                                      *)
C6_LookupFailureMetered ==
    [][(ChatServed /\ resp'.lookup = "error") =>
        LET key == usage_key(resp'.user, resp'.day)
            before == Get(user_usage, key, 0)
        IN  /\ ~resp'.has_subscription
            /\ before < Limit =>
                    /\ resp'.admitted
                    /\ user_usage' = Put(user_usage, key, before + 1)
                    /\ resp'.gate = RemInt(Limit - (before + 1))
                    /\ resp'.status = IF resp'.provider = "ok" THEN 200 ELSE 500
            /\ before >= Limit =>
                    /\ ~resp'.admitted
                    /\ resp'.status = 429
                    /\ user_usage' = user_usage]_vars

\* a request whose lookup failed was rejected by the quota
C6_Witness ==
    /\ resp.op = "chat" /\ resp.lookup = "error"
    /\ resp.status = 429
    /\ Stored(resp.user, resp.day) = Limit

(* C7 as written: a failed lookup in /api/check-subscription (e-mail       *)
(* given) is answered as "no subscription", not as an error.               *)
C7_Original ==
    (resp.op = "check" /\ resp.lookup = "error") =>
        /\ resp.status = 200
        /\ ~resp.has_subscription
        /\ resp.error = ""

(* C7 amended: a failed lookup in /api/check-subscription (e-mail given)   *)
(* is answered by the handler's exception clause: status 500 with the      *)
(* error, no subscription report and no remaining_messages.                *)
C7_LookupFailureIs500 ==
    (resp.op = "check" /\ resp.lookup = "error") =>
        /\ resp.status = 500
        /\ resp.error = "stripe"
        /\ ~resp.has_subscription
        /\ resp.remaining = RemAbsent

\* check-subscription met a failing lookup
C7_Witness ==
    /\ resp.op = "check" /\ resp.user = "a"
    /\ resp.lookup = "error"
    /\ resp.status = 500

\* the plan names a price variable that is set to a non-empty value
Configured(plan, env) ==
    \/ plan = "premium" /\ env.STRIPE_PRICE_PREMIUM \notin {"<unset>", ""}
    \/ plan = "premium_voice" /\ env.STRIPE_PRICE_PREMIUM_VOICE \notin {"<unset>", ""}

C9_LostUpdate ==
    \A user \in Emails, day \in Days :
        /\ Stored(user, day) <= admits[<<user, day>>]
        /\ Stored(user, day) <= Limit
        /\ \A t \in Threads :
                (pc[t] \in {"write", "remain"} /\ loc[t].user_email = user
                    /\ loc[t].today = day) =>
                    loc[t].current_usage < Limit

\* eleven requests of "a" were admitted on day 1 and all are done; ten are stored
C9_Witness ==
    /\ \A t \in Threads : pc[t] = "idle"
    /\ admits[<<"a", 1>>] = Limit + 1
    /\ Stored("a", 1) = Limit

(* C10 as written: for a named user whose lookup reports no active         *)
(* subscription (customer record or not), check-subscription reports       *)
(* max(0, 10 - today's stored count), the number of chat requests the      *)
(* gate would still admit.                                                 *)
C10_Original ==
    (resp.op = "check" /\ resp.user # Anonymous
        /\ resp.lookup \in {"no_customer", "inactive"}) =>
        resp.remaining = RemInt(Max(0, Limit - Stored(resp.user, resp.day)))

====
